---- MODULE Spec2Model ----
(***************************************************************************)
(* The ColorGame component of src/src/components/ColorGame.tsx: the React  *)
(* state of the component, its three event handlers (startGame, the        *)
(* interval callback of the Timer effect, handleBlockClick) and the level  *)
(* generator they call.                                                    *)
(*                                                                         *)
(* Every handler runs to completion on the state of the render it was      *)
(* created in, and React commits the queued updates (and runs the Timer    *)
(* effect when gameState changed) before the next event is dispatched, so  *)
(* one action is one event: handler, commit and effect.  Inside a handler  *)
(* an unprimed variable is the value the handler's closure captured.       *)
(*                                                                         *)
(* Lightness values and delta are kept in tenths (15 - level * 0.8 is a    *)
(* multiple of 0.1), so delta = 14.2 is the integer 142.                   *)
(***************************************************************************)
EXTENDS Integers, Sequences, FiniteSets, TLC

\* Model bound: the level at which correct picks stop being explored.
MaxLevel == 22

VARIABLES
    gameState,   \* useState 'start' | 'playing' | 'gameover'        (line 21)
    colorState,  \* useState ColorState | null                       (line 22)
    stats,       \* useState GameStats                               (line 23)
    timeLeft,    \* useState seconds left                            (line 24)
    gridSize,    \* useState side of the grid                        (line 25)
    timers,      \* number of live setInterval timers of the Timer effect
    lastOp       \* history: the event handled last

vars == <<gameState, colorState, stats, timeLeft, gridSize, timers, lastOp>>

Min(a, b) == IF a < b THEN a ELSE b
Max(a, b) == IF a > b THEN a ELSE b

\* colorState = null
NULL == [null |-> TRUE]

\* Date.now(): some positive timestamp
DateNow == 1

\* Outcomes explored for Math.floor(Math.random() * n): both ends of [0, n).
RandomInt(n) == {0, n - 1}

\* `hsl(${h}, ${s}%, ${l}%)`: the three numbers the string is built from,
\* the lightness in tenths.
hsl(h, s, l10) == [h |-> h, s |-> s, l |-> l10]

\* Mutant of baseDelta: the floor of 1 is left out.
baseDeltaUnfloored(level) == 150 - level * 8

\* line 31: Math.max(1, 15 - level * 0.8), in tenths
baseDelta(level) == Max(10, 150 - level * 8)

\* Mutant of newGridSize: level / 5 in place of (level - 1) / 5.
newGridSizeOffByOne(level) == Min(9, (25 + level) \div 5)

\* line 34: Math.min(9, Math.floor(5 + (level - 1) / 5))
newGridSize(level) == Min(9, (25 + (level - 1)) \div 5)

\* Mutant of diffLightness: the result is clamped to the range of the base
\* lightness, 30..70, in place of 0..100.
diffLightnessBaseRange(lightness, lDiff) == Min(700, Max(300, lightness * 10 + lDiff))

\* line 46: Math.min(100, Math.max(0, lightness + lDiff)), in tenths
diffLightness(lightness, lDiff) == Min(1000, Max(0, lightness * 10 + lDiff))

\* line 48: Math.floor(Math.random() * (gridSize * gridSize)), on the gridSize
\* the generateLevel callback captured (useCallback deps [gridSize])
diffIndexChoices == RandomInt(gridSize * gridSize)

\* lines 28-56
generateLevel(level) ==
    /\ gridSize' = newGridSize(level)
    /\ \E hue \in RandomInt(360), sr \in RandomInt(40), lr \in RandomInt(40),
          isLighter \in BOOLEAN, diffIndex \in diffIndexChoices :
          LET saturation == sr + 60
              lightness == lr + 30
              lDiff == IF isLighter THEN baseDelta(level) ELSE -baseDelta(level)
          IN colorState' =
                 [baseColor |-> hsl(hue, saturation, lightness * 10),
                  diffColor |-> hsl(hue, saturation, diffLightness(lightness, lDiff)),
                  diffIndex |-> diffIndex,
                  delta |-> baseDelta(level)]

\* Mutant of TimerEffect: the effect returns no cleanup, so no interval is
\* ever cleared.
TimerEffectNoCleanup(old, new, n) ==
    IF old = new THEN n ELSE n + (IF new = "playing" THEN 1 ELSE 0)

\* lines 67-81: the Timer effect, run at a commit that changed gameState from
\* old to new: the previous run's cleanup clears its interval, the new run
\* installs one when the game is playing.
TimerEffect(old, new, n) ==
    IF old = new THEN n
    ELSE (IF old = "playing" THEN n - 1 ELSE n) + (IF new = "playing" THEN 1 ELSE 0)

Init ==
    /\ gameState = "start"
    /\ colorState = NULL
    /\ stats = [score |-> 0, startTime |-> 0, endTime |-> 0, level |-> 1]
    /\ timeLeft = 45
    /\ gridSize = 5
    /\ timers = 0
    /\ lastOp = "mount"

\* lines 59-64; the buttons that call it are START CHALLENGE on the start
\* panel (lines 159-165) and TRY AGAIN on the gameover panel (lines 228-234)
startGame ==
    /\ gameState \in {"start", "gameover"}
    /\ stats' = [score |-> 0, startTime |-> DateNow, endTime |-> 0, level |-> 1]
    /\ timeLeft' = 45
    /\ gameState' = "playing"
    /\ generateLevel(1)
    /\ timers' = TimerEffect(gameState, gameState', timers)
    /\ lastOp' = IF gameState = "start" THEN "startChallenge" ELSE "tryAgain"

\* Mutants of TimerExpired: prev <= 0, prev <= 2 and prev = 1 in place of
\* prev <= 1.
TimerExpiredAtZero(prev) == prev <= 0
TimerExpiredEarly(prev) == prev <= 2
TimerExpiredExactlyOne(prev) == prev = 1

\* line 72
TimerExpired(prev) == prev <= 1

\* Mutant of Tick: endGame also drops the level colors.
TickClearsColors ==
    /\ timers > 0
    /\ IF TimerExpired(timeLeft)
       THEN /\ gameState' = "gameover"
            /\ stats' = [stats EXCEPT !.endTime = DateNow]
            /\ timeLeft' = 0
            /\ colorState' = NULL
       ELSE /\ timeLeft' = timeLeft - 1
            /\ UNCHANGED <<gameState, stats, colorState>>
    /\ timers' = TimerEffect(gameState, gameState', timers)
    /\ lastOp' = "tick"
    /\ UNCHANGED gridSize

\* Mutant of Tick: the expiring tick returns prev in place of 0.
TickKeepsTime ==
    /\ timers > 0
    /\ IF TimerExpired(timeLeft)
       THEN /\ gameState' = "gameover"
            /\ stats' = [stats EXCEPT !.endTime = DateNow]
            /\ timeLeft' = timeLeft
       ELSE /\ timeLeft' = timeLeft - 1
            /\ UNCHANGED <<gameState, stats>>
    /\ timers' = TimerEffect(gameState, gameState', timers)
    /\ lastOp' = "tick"
    /\ UNCHANGED <<colorState, gridSize>>

\* lines 70-78 and endGame, lines 83-86: one firing of a live interval
Tick ==
    /\ timers > 0
    /\ IF TimerExpired(timeLeft)
       THEN /\ gameState' = "gameover"
            /\ stats' = [stats EXCEPT !.endTime = DateNow]
            /\ timeLeft' = 0
       ELSE /\ timeLeft' = timeLeft - 1
            /\ UNCHANGED <<gameState, stats>>
    /\ timers' = TimerEffect(gameState, gameState', timers)
    /\ lastOp' = "tick"
    /\ UNCHANGED <<colorState, gridSize>>

\* Mutant of ClickIgnored: the test of gameState is left out.
ClickIgnoredNoPhase == colorState = NULL

\* line 89
ClickIgnored == gameState # "playing" \/ colorState = NULL

\* Mutants of TimeBonus: a bonus of 2 seconds, and no cap at 60.
TimeBonusDouble(prev) == Min(60, prev + 2)
TimeBonusUncapped(prev) == prev + 1

\* line 96
TimeBonus(prev) == Min(60, prev + 1)

\* Mutants of TimePenalty: no floor at 0, and 5 seconds added (capped at 60)
\* in place of taken off.
TimePenaltyUnclamped(prev) == prev - 5
TimePenaltyAddsTime(prev) == Min(60, prev + 5)

\* line 101
TimePenalty(prev) == Max(0, prev - 5)

\* The tiles a click can land on: lines 175-185
Tiles == 0 .. (gridSize * gridSize - 1)

\* Mutant of handleBlockClick: newLevel is stats.level, without the + 1.
handleBlockClickKeepsLevel(index) ==
    IF ClickIgnored
    THEN /\ lastOp' = "ignored"
         /\ UNCHANGED <<gameState, colorState, stats, timeLeft, gridSize, timers>>
    ELSE IF index = colorState.diffIndex
    THEN /\ stats.level < MaxLevel
         /\ LET newLevel == stats.level IN
              /\ stats' = [stats EXCEPT !.score = @ + 1, !.level = newLevel]
              /\ timeLeft' = TimeBonus(timeLeft)
              /\ generateLevel(newLevel)
         /\ lastOp' = "pick"
         /\ UNCHANGED <<gameState, timers>>
    ELSE /\ timeLeft' = TimePenalty(timeLeft)
         /\ lastOp' = "miss"
         /\ UNCHANGED <<gameState, colorState, stats, gridSize, timers>>

\* lines 88-110
handleBlockClick(index) ==
    IF ClickIgnored
    THEN /\ lastOp' = "ignored"
         /\ UNCHANGED <<gameState, colorState, stats, timeLeft, gridSize, timers>>
    ELSE IF index = colorState.diffIndex
    THEN /\ stats.level < MaxLevel
         /\ LET newLevel == stats.level + 1 IN
              /\ stats' = [stats EXCEPT !.score = @ + 1, !.level = newLevel]
              /\ timeLeft' = TimeBonus(timeLeft)
              /\ generateLevel(newLevel)
         /\ lastOp' = "pick"
         /\ UNCHANGED <<gameState, timers>>
    ELSE /\ timeLeft' = TimePenalty(timeLeft)
         /\ lastOp' = "miss"
         /\ UNCHANGED <<gameState, colorState, stats, gridSize, timers>>

\* The clicks explored: the first tile, the last tile and the target tile.
\* Every other tile takes the same branch of handleBlockClick as one of these.
ClickedTiles ==
    {i \in Tiles : \/ i \in {0, gridSize * gridSize - 1}
                   \/ (colorState # NULL /\ i = colorState.diffIndex)}

Click == \E index \in ClickedTiles : handleBlockClick(index)

Next == startGame \/ Tick \/ Click

Spec == Init /\ [][Next]_vars

\* lines 70-78: a live interval keeps firing, so a tick that can happen does
\* happen.
FairSpec == Spec /\ WF_vars(Tick)

----------------------------------------------------------------------------
\* The formulas of spec.md section 4.1, written as the specification states
\* them (delta in tenths).
SpecGridSize(L) == IF L >= 21 THEN 9 ELSE 5 + (L - 1) \div 5
SpecDelta(L) == IF 150 - 8 * L >= 10 THEN 150 - 8 * L ELSE 10

ClickOps == {"pick", "miss", "ignored"}
StartOps == {"startChallenge", "tryAgain"}

----------------------------------------------------------------------------
\* C1: in every playing state the installed target index lies in
\* [0, gridSize*gridSize) of the installed gridSize, so exactly one rendered
\* tile carries the target color.
C1_TargetInGrid ==
    gameState = "playing" =>
        /\ colorState.diffIndex >= 0
        /\ colorState.diffIndex < gridSize * gridSize
        /\ Cardinality({i \in Tiles : i = colorState.diffIndex}) = 1

\* C2: a click on the target tile while playing adds exactly 1 to score and
\* to level, sets timeLeft to min(60, timeLeft + 1), leaves the phase playing
\* and installs the grid size and delta of the new level; from level 1 with
\* 45 seconds left the result is level 2, score 1, 46 seconds, grid 5.
C2_CorrectPick ==
    [][(gameState = "playing" /\ lastOp' = "pick") =>
          /\ stats'.score = stats.score + 1
          /\ stats'.level = stats.level + 1
          /\ timeLeft' = (IF timeLeft + 1 > 60 THEN 60 ELSE timeLeft + 1)
          /\ gameState' = "playing"
          /\ gridSize' = SpecGridSize(stats'.level)
          /\ colorState'.delta = SpecDelta(stats'.level)
          /\ (stats.level = 1 /\ stats.score = 0 /\ timeLeft = 45) =>
                (stats'.level = 2 /\ stats'.score = 1 /\ timeLeft' = 46 /\ gridSize' = 5)
      ]_vars

C2_Witness ==
    /\ lastOp = "pick" /\ gameState = "playing"
    /\ stats.level = 2 /\ stats.score = 1 /\ timeLeft = 46 /\ gridSize = 5

\* C3: a click on a tile other than the target while playing sets timeLeft to
\* max(0, timeLeft - 5) and changes nothing else of the game.
C3_IncorrectPick ==
    [][(gameState = "playing" /\ lastOp' = "miss") =>
          /\ timeLeft' = (IF timeLeft - 5 < 0 THEN 0 ELSE timeLeft - 5)
          /\ stats'.score = stats.score
          /\ stats'.level = stats.level
          /\ UNCHANGED <<gameState, gridSize, colorState>>
      ]_vars

C3_Witness ==
    /\ lastOp = "miss" /\ gameState = "playing"
    /\ timeLeft = 0 /\ stats.level > 1

\* C4: a tick while playing with timeLeft <= 1 sets timeLeft to 0, the phase
\* to gameover and records endTime; with timeLeft > 1 it takes exactly one
\* second off and changes nothing else.
C4_ClockTick ==
    [][(gameState = "playing" /\ lastOp' = "tick") =>
          IF timeLeft <= 1
          THEN /\ timeLeft' = 0
               /\ gameState' = "gameover"
               /\ stats'.endTime > 0
          ELSE /\ timeLeft' = timeLeft - 1
               /\ stats'.score = stats.score
               /\ stats'.level = stats.level
               /\ UNCHANGED <<gameState, gridSize, colorState>>
      ]_vars

C4_Witness ==
    /\ lastOp = "tick" /\ gameState = "gameover"
    /\ timeLeft = 0 /\ stats.endTime > 0 /\ stats.score > 0

\* C5: while the phase is start or gameover no click and no tick changes the
\* game state, and score and level stay what they were for as long as the
\* phase stays gameover.
C5_NoOpOutsidePlaying ==
    [][/\ (gameState # "playing" /\ lastOp' \in ClickOps \cup {"tick"}) =>
            /\ stats'.score = stats.score
            /\ stats'.level = stats.level
            /\ UNCHANGED <<gameState, timeLeft, gridSize, colorState>>
       /\ (gameState = "gameover" /\ gameState' = "gameover") =>
            (stats'.score = stats.score /\ stats'.level = stats.level)
      ]_vars

C5_Witness ==
    /\ lastOp = "ignored" /\ gameState = "gameover"
    /\ stats.score > 0 /\ colorState # NULL

\* C6: startGame, from start or from gameover, yields score 0, level 1,
\* endTime 0, 45 seconds, phase playing, grid 5 and a level-1 color state with
\* delta 14.2 whose target index is drawn for the 5x5 grid: nothing of the
\* previous session survives.
C6_StartGameResets ==
    [][(lastOp' \in StartOps) =>
          /\ stats'.score = 0 /\ stats'.level = 1 /\ stats'.endTime = 0
          /\ timeLeft' = 45
          /\ gameState' = "playing"
          /\ gridSize' = 5
          /\ colorState'.delta = 142
          /\ colorState'.diffIndex \in 0 .. 24
      ]_vars

\* C7: the phase changes only start -> playing and gameover -> playing, both
\* by startGame, and playing -> gameover, by a tick that sees timeLeft <= 1;
\* no click changes the phase.
C7_PhaseTransitions ==
    [][/\ gameState' # gameState =>
            \/ gameState = "start" /\ gameState' = "playing" /\ lastOp' \in StartOps
            \/ gameState = "gameover" /\ gameState' = "playing" /\ lastOp' \in StartOps
            \/ /\ gameState = "playing" /\ gameState' = "gameover"
               /\ lastOp' = "tick" /\ timeLeft <= 1
       /\ lastOp' \in ClickOps => gameState' = gameState
      ]_vars

C7_Witness ==
    gameState = "playing" /\ lastOp = "tryAgain" /\ stats.endTime = 0

\* C8: timeLeft is always an integer from 0 to 60.
C8_TimeLeftRange == timeLeft \in 0 .. 60

C8_Witness ==
    lastOp = "pick" /\ timeLeft = 60 /\ stats.level >= 17

\* C9: the installed gridSize is min(9, floor(5 + (level - 1)/5)) of the
\* current level, one of 5..9, and does not decrease except by startGame.
C9_GridSizeInv ==
    gridSize = SpecGridSize(stats.level) /\ gridSize \in 5 .. 9

C10_DeltaInv ==
    gameState = "playing" =>
        (colorState.delta = SpecDelta(stats.level) /\ colorState.delta >= 10)

C10_Delta ==
    /\ C10_DeltaInv
    /\ [][/\ C10_DeltaInv'
          /\ (gameState = "playing" /\ lastOp' = "pick") =>
                colorState'.delta <= colorState.delta
         ]_vars

C10_Witness ==
    gameState = "playing" /\ colorState.delta = 10 /\ stats.level >= 18

\* C11: at most one interval is live, one is live exactly while the phase is
\* playing, and every tick comes from the single interval of the session being
\* played: the interval of a session is cleared when the session ends, so none
\* is left over when the next session installs its own.
C11_ClockInv ==
    /\ timers \in {0, 1}
    /\ (timers = 1) <=> (gameState = "playing")

C11_SingleClock ==
    /\ C11_ClockInv
    /\ [][/\ C11_ClockInv'
          /\ lastOp' = "tick" => (gameState = "playing" /\ timers = 1)
          /\ (gameState = "playing" /\ gameState' # "playing") => timers' = 0
          /\ lastOp' \in StartOps => (timers = 0 /\ timers' = 1)
         ]_vars

C11_Witness ==
    /\ lastOp = "tryAgain" /\ gameState = "playing"
    /\ timers = 1 /\ timeLeft = 45

\* C12: the target of a level is drawn from the whole grid of that level.
\* Stated for the last tile of the new grid (the draws explored are the two
\* ends of the range): whenever the target can be picked, a pick can install
\* a level whose target is the last tile of that level's own grid.
C12_TargetFromOwnGrid ==
    (gameState = "playing" /\ stats.level < MaxLevel
        /\ colorState.diffIndex \in Tiles) =>
       ENABLED (/\ Click
                /\ lastOp' = "pick"
                /\ colorState'.diffIndex = gridSize' * gridSize' - 1)

\* C13: a click on a wrong tile with timeLeft <= 5 sets timeLeft to 0 and
\* leaves the phase playing, and the first tick delivered while playing with
\* timeLeft = 0 ends the game.
C13_PenaltyToZero ==
    [][/\ (gameState = "playing" /\ lastOp' = "miss" /\ timeLeft <= 5) =>
            (timeLeft' = 0 /\ gameState' = "playing")
       /\ (gameState = "playing" /\ timeLeft = 0 /\ lastOp' = "tick") =>
            (gameState' = "gameover" /\ timeLeft' = 0)
      ]_vars

C13_Witness ==
    /\ gameState = "playing" /\ timeLeft = 0 /\ lastOp = "miss"
    /\ stats.level = 1 /\ stats.score = 0

\* C14: there is no level-color state in the start phase, there is one in
\* every playing state, and a step that ends in gameover (the tick that ends
\* the game, or any step while the game is over) leaves it as it was.
C14_ColorsInv ==
    /\ gameState = "start" => colorState = NULL
    /\ gameState \in {"playing", "gameover"} =>
          (colorState # NULL
             /\ DOMAIN colorState = {"baseColor", "diffColor", "diffIndex", "delta"})

C14_ColorsRetained ==
    /\ C14_ColorsInv
    /\ [][/\ C14_ColorsInv'
          /\ gameState' = "gameover" => colorState' = colorState
         ]_vars

C14_Witness ==
    /\ gameState = "gameover" /\ lastOp = "tick"
    /\ colorState # NULL /\ colorState.delta < 142

\* C15: the target color has the hue and saturation of the base color, a
\* lightness in [0, 100], and a lightness that differs from the base
\* lightness by exactly max(1, 15 - 0.8*level): the clamp never cuts the
\* shift, and the two colors differ.
C15_TargetColor ==
    colorState # NULL =>
        LET b == colorState.baseColor
            d == colorState.diffColor
        IN /\ d.h = b.h /\ d.s = b.s
           /\ d.l >= 0 /\ d.l <= 1000
           /\ (d.l - b.l = SpecDelta(stats.level) \/ b.l - d.l = SpecDelta(stats.level))
           /\ d # b

C15_Witness ==
    /\ gameState = "playing" /\ stats.level = 1
    /\ colorState.baseColor.l = 690 /\ colorState.diffColor.l = 832

\* C16: level = score + 1 and level >= 1 in every state.
C16_LevelIsScorePlusOne ==
    stats.level = stats.score + 1 /\ stats.level >= 1

C16_Witness ==
    /\ gameState = "playing" /\ lastOp = "pick"
    /\ stats.level = 4 /\ stats.score = 3 /\ timeLeft = 48

\* C18: timeLeft is 0 in every gameover state, and the startGame that leaves
\* gameover sets it to 45.
C18_GameoverInv == gameState = "gameover" => timeLeft = 0

C18_GameoverTimeZero ==
    /\ C18_GameoverInv
    /\ [][/\ C18_GameoverInv'
          /\ (gameState = "gameover" /\ gameState' # "gameover") =>
                (lastOp' = "tryAgain" /\ timeLeft' = 45)
         ]_vars

C18_Witness ==
    /\ gameState = "gameover" /\ lastOp = "tick"
    /\ timeLeft = 0 /\ stats.score = 0

\* C17: while playing, a tick either ends the game or takes exactly one
\* second off a timeLeft that was above 1, and a wrong click never adds time,
\* so with timeLeft = t the game is over after at most max(1, t) <= 60 ticks
\* unless a correct click comes first; and with the ticks delivered, every
\* playing state is followed by gameover or by a correct click.
C17_GameEnds ==
    /\ [][/\ (gameState = "playing" /\ lastOp' = "tick") =>
               \/ gameState' = "gameover" /\ timeLeft <= 1
               \/ /\ gameState' = "playing" /\ timeLeft \in 2 .. 60
                  /\ timeLeft' = timeLeft - 1
          /\ (gameState = "playing" /\ lastOp' = "miss") => timeLeft' <= timeLeft
         ]_vars
    /\ (gameState = "playing" /\ lastOp # "pick")
          ~> (gameState = "gameover" \/ lastOp = "pick")

C17_Witness ==
    /\ gameState = "gameover" /\ lastOp = "tick"
    /\ stats.level = 2 /\ stats.score = 1

====
